---- MODULE Spec2Model ----
(***************************************************************************)
(* The batch-auction state machine of near-intents (src/src/auction.rs):   *)
(* AuctionStateMachine with its commands SubmitIntent, SubmitQuote and     *)
(* ClearRound, the compatibility rule token_diffs_compatible and the flow   *)
(* computation aggregate_token_flow.                                       *)
(*                                                                         *)
(* A TokenDiff (BTreeMap<AssetId, i128>) is a function from a set of       *)
(* assets to integers.  A BTreeMap<u64, _> is a function from a set of ids. *)
(* A Vec is a sequence.  The fields of Intent and Quote that no operation  *)
(* of the state machine reads (signer_id, deadline_ms,                     *)
(* min_quote_deadline_ms, solver_id, expiration_ms) are carried data only  *)
(* and are left out of the records.                                        *)
(***************************************************************************)
EXTENDS Integers, Sequences, FiniteSets, TLC

VARIABLES
    pending_intents,   \* BTreeMap<u64, Intent>
    intent_status,     \* BTreeMap<u64, IntentStatus>
    current_round,     \* u64
    quotes,            \* BTreeMap<u64, Vec<Quote>>
    round_results,     \* Vec<Settlement>
    panicked,          \* TRUE once apply has aborted on an arithmetic overflow
    clears,            \* history: number of ClearRound commands that completed
    resubmitted,       \* history: ids submitted again after they were settled
    submitted          \* history: ids submitted since construction or reset

vars == <<pending_intents, intent_status, current_round, quotes,
          round_results, panicked, clears, resubmitted, submitted>>

(***************************************************************************)
(* Bounds of the model.                                                    *)
(***************************************************************************)
\* At most MaxQuotes quotes are buffered at a time (over all intents).
MaxQuotes == 2
\* Commands are applied while current_round < MaxRound.
MaxRound == 2
\* Width of the signed amounts of a TokenDiff (i128 in the source).
IntBits == 8

IntMin == -(2 ^ (IntBits - 1))
IntMax == (2 ^ (IntBits - 1)) - 1

\* The values the commands are built from.
IntentIds == {1, 2}
Assets == {"A", "B"}
QuoteHashes == {"h1", "h2"}
AmountsOut == {1, 2}

(***************************************************************************)
(* Token diffs.                                                            *)
(***************************************************************************)
EmptyDiff == [a \in {} |-> 0]

\* All token diffs over Assets with amounts in amts.
DiffsOver(amts) == UNION {[S -> amts] : S \in SUBSET Assets}

\* diff.get(asset) with an absent key read as zero.
AmountOf(diff, asset) == IF asset \in DOMAIN diff THEN diff[asset] ELSE 0

\* i128::unsigned_abs
UnsignedAbs(x) == IF x < 0 THEN -x ELSE x

\* The result of a wrapping two's-complement addition, and whether the
\* exact sum leaves the range of the type.
Wrap(x) == ((x - IntMin) % (2 ^ IntBits)) + IntMin
Overflows(x) == x < IntMin \/ x > IntMax

\* The rule without its check of the magnitude the solver provides.
AssetCompatible_NoMagnitude(user_amount, solver_diff, asset) ==
    IF asset \in DOMAIN solver_diff
    THEN LET solver_amount == solver_diff[asset] IN
         /\ ~(user_amount > 0 /\ solver_amount >= 0)
         /\ ~(user_amount < 0 /\ solver_amount <= 0)
    ELSE ~(user_amount > 0)

\* One asset of the loop of token_diffs_compatible: TRUE when the loop
\* body does not return false for this entry of user_diff.
AssetCompatible(user_amount, solver_diff, asset) ==
    IF asset \in DOMAIN solver_diff
    THEN LET solver_amount == solver_diff[asset] IN
         /\ ~(user_amount > 0 /\ solver_amount >= 0)
         /\ ~(user_amount < 0 /\ solver_amount <= 0)
         /\ ~(user_amount > 0
              /\ UnsignedAbs(solver_amount) < UnsignedAbs(user_amount))
    ELSE ~(user_amount > 0)

token_diffs_compatible(user_diff, solver_diff) ==
    \A asset \in DOMAIN user_diff :
        AssetCompatible(user_diff[asset], solver_diff, asset)

\* flow = user_diff.clone(); for each solver entry: *entry.or_insert(0) += amount.
\* Each key receives at most one addition.
aggregate_token_flow(user_diff, solver_diff) ==
    [asset \in DOMAIN user_diff \cup DOMAIN solver_diff |->
        IF asset \in DOMAIN solver_diff
        THEN Wrap(AmountOf(user_diff, asset) + solver_diff[asset])
        ELSE user_diff[asset]]

\* Whether one of the additions of aggregate_token_flow overflows.
PairFlowOverflows(user_diff, solver_diff) ==
    \E asset \in DOMAIN solver_diff :
        Overflows(AmountOf(user_diff, asset) + solver_diff[asset])

\* for (asset, amount) in flow: *aggregate_flow.entry(asset).or_insert(0) += amount
AccumulateFlow(aggregate_flow, flow) ==
    [asset \in DOMAIN aggregate_flow \cup DOMAIN flow |->
        IF asset \in DOMAIN flow
        THEN Wrap(AmountOf(aggregate_flow, asset) + flow[asset])
        ELSE aggregate_flow[asset]]

AccumulateOverflows(aggregate_flow, flow) ==
    \E asset \in DOMAIN flow :
        Overflows(AmountOf(aggregate_flow, asset) + flow[asset])

(***************************************************************************)
(* Winner selection.                                                       *)
(***************************************************************************)
\* The selection without the compatibility filter (the score-max policy).
CompatibleQuotes_NoFilter(intent, qs) == qs

\* quotes.iter().filter(|q| token_diffs_compatible(intent.token_diff, q.solver_token_diff))
CompatibleQuotes(intent, qs) ==
    SelectSeq(qs, LAMBDA q :
        token_diffs_compatible(intent.token_diff, q.solver_token_diff))

\* Iterator::max_by_key over a non-empty sequence: of several equally
\* maximal elements the last one is returned.
RECURSIVE MaxByAmountOut(_)
MaxByAmountOut(qs) ==
    IF Len(qs) = 1 THEN qs[1]
    ELSE LET best == MaxByAmountOut(SubSeq(qs, 1, Len(qs) - 1))
             last == qs[Len(qs)]
         IN IF best.amount_out > last.amount_out THEN best ELSE last

\* The selection looking at the first buffered quote only.
BestQuote_FirstOnly(intent, qs) ==
    IF qs # <<>>
       /\ token_diffs_compatible(intent.token_diff, qs[1].solver_token_diff)
    THEN <<qs[1]>> ELSE <<>>

\* The Option<&Quote> named best, as a sequence of length 0 or 1.
BestQuote(intent, qs) ==
    LET compatible == CompatibleQuotes(intent, qs) IN
    IF compatible = <<>> THEN <<>> ELSE <<MaxByAmountOut(compatible)>>

\* The keys of a BTreeMap in iteration (ascending) order.
RECURSIVE SortedKeys(_)
SortedKeys(S) ==
    IF S = {} THEN <<>>
    ELSE LET least == CHOOSE x \in S : \A y \in S : x <= y
         IN <<least>> \o SortedKeys(S \ {least})

EmptyRound ==
    [settled_intents |-> <<>>, winning_quotes |-> <<>>,
     aggregate_flow |-> EmptyDiff, overflow |-> FALSE]

\* The loop body with each winner put in front of winning_quotes.
ClearStep_PrependWinner(acc, intent_id, pending, buffered) ==
    IF intent_id \notin DOMAIN buffered THEN acc
    ELSE LET intent == pending[intent_id]
             best == BestQuote(intent, buffered[intent_id])
         IN IF best = <<>> THEN acc
            ELSE LET flow == aggregate_token_flow(intent.token_diff,
                                                  best[1].solver_token_diff)
                 IN [settled_intents |-> Append(acc.settled_intents, intent_id),
                     winning_quotes |-> <<best[1].quote_hash>> \o acc.winning_quotes,
                     aggregate_flow |-> AccumulateFlow(acc.aggregate_flow, flow),
                     overflow |->
                         \/ acc.overflow
                         \/ PairFlowOverflows(intent.token_diff,
                                              best[1].solver_token_diff)
                         \/ AccumulateOverflows(acc.aggregate_flow, flow)]

\* One iteration of the loop over pending_intents in ClearRound.
ClearStep(acc, intent_id, pending, buffered) ==
    IF intent_id \notin DOMAIN buffered THEN acc
    ELSE LET intent == pending[intent_id]
             best == BestQuote(intent, buffered[intent_id])
         IN IF best = <<>> THEN acc
            ELSE LET flow == aggregate_token_flow(intent.token_diff,
                                                  best[1].solver_token_diff)
                 IN [settled_intents |-> Append(acc.settled_intents, intent_id),
                     winning_quotes |-> Append(acc.winning_quotes, best[1].quote_hash),
                     aggregate_flow |-> AccumulateFlow(acc.aggregate_flow, flow),
                     overflow |->
                         \/ acc.overflow
                         \/ PairFlowOverflows(intent.token_diff,
                                              best[1].solver_token_diff)
                         \/ AccumulateOverflows(acc.aggregate_flow, flow)]

\* The loop of ClearRound over the ids in order.
RECURSIVE ClearLoop(_, _, _)
ClearLoop(ids, pending, buffered) ==
    IF ids = <<>> THEN EmptyRound
    ELSE ClearStep(ClearLoop(SubSeq(ids, 1, Len(ids) - 1), pending, buffered),
                   ids[Len(ids)], pending, buffered)

\* What ClearRound computes before it changes the state.
RoundOutcome(pending, buffered) ==
    ClearLoop(SortedKeys(DOMAIN pending), pending, buffered)

Range(s) == {s[i] : i \in DOMAIN s}

\* Number of buffered quotes, over all intents.
Buffered(buffered) ==
    LET RECURSIVE Sum(_)
        Sum(S) == IF S = {} THEN 0
                  ELSE LET k == CHOOSE x \in S : TRUE
                       IN Len(buffered[k]) + Sum(S \ {k})
    IN Sum(DOMAIN buffered)

(***************************************************************************)
(* The state machine.                                                      *)
(***************************************************************************)
\* AuctionStateMachine::new
Init ==
    /\ pending_intents = [i \in {} |-> 0]
    /\ intent_status = [i \in {} |-> 0]
    /\ current_round = 0
    /\ quotes = [i \in {} |-> 0]
    /\ round_results = <<>>
    /\ panicked = FALSE
    /\ clears = 0
    /\ resubmitted = {}
    /\ submitted = {}

\* The model applies commands while the machine runs and the round
\* counter is below its bound.
Running == ~panicked /\ current_round < MaxRound

\* BTreeMap::insert
Insert(map, key, value) ==
    [k \in DOMAIN map \cup {key} |-> IF k = key THEN value ELSE map[k]]

\* BTreeMap::remove of a set of keys
RemoveAll(map, keys) == [k \in DOMAIN map \ keys |-> map[k]]

\* SubmitIntent that sets the status of an id only the first time it sees it.
SubmitIntent_StatusOnce(intent) ==
    /\ Running
    /\ intent_status' =
           IF intent.id \in DOMAIN intent_status THEN intent_status
           ELSE Insert(intent_status, intent.id, "Pending")
    /\ pending_intents' = Insert(pending_intents, intent.id, intent)
    /\ resubmitted' =
           IF intent.id \in DOMAIN intent_status
              /\ intent_status[intent.id] = "Settled"
           THEN resubmitted \cup {intent.id} ELSE resubmitted
    /\ submitted' = submitted \cup {intent.id}
    /\ UNCHANGED <<current_round, quotes, round_results, panicked, clears>>

\* SubmitIntent that discards the quotes buffered for the id.
SubmitIntent_DropQuotes(intent) ==
    /\ Running
    /\ intent_status' = Insert(intent_status, intent.id, "Pending")
    /\ pending_intents' = Insert(pending_intents, intent.id, intent)
    /\ quotes' = RemoveAll(quotes, {intent.id})
    /\ resubmitted' =
           IF intent.id \in DOMAIN intent_status
              /\ intent_status[intent.id] = "Settled"
           THEN resubmitted \cup {intent.id} ELSE resubmitted
    /\ submitted' = submitted \cup {intent.id}
    /\ UNCHANGED <<current_round, round_results, panicked, clears>>

\* apply(AuctionCommand::SubmitIntent(intent))
SubmitIntent(intent) ==
    /\ Running
    /\ intent_status' = Insert(intent_status, intent.id, "Pending")
    /\ pending_intents' = Insert(pending_intents, intent.id, intent)
    /\ resubmitted' =
           IF intent.id \in DOMAIN intent_status
              /\ intent_status[intent.id] = "Settled"
           THEN resubmitted \cup {intent.id} ELSE resubmitted
    /\ submitted' = submitted \cup {intent.id}
    /\ UNCHANGED <<current_round, quotes, round_results, panicked, clears>>

\* SubmitQuote without the check that the intent is pending.
SubmitQuote_NoCheck(quote) ==
    /\ Running
    /\ Buffered(quotes) < MaxQuotes
    /\ quotes' = Insert(quotes, quote.intent_id,
           Append(IF quote.intent_id \in DOMAIN quotes
                  THEN quotes[quote.intent_id] ELSE <<>>, quote))
    /\ UNCHANGED <<pending_intents, intent_status, current_round,
                   round_results, panicked, clears, resubmitted, submitted>>

\* SubmitQuote that puts the quote in front of the buffered ones.
SubmitQuote_Prepend(quote) ==
    /\ Running
    /\ Buffered(quotes) < MaxQuotes
    /\ quotes' =
           IF quote.intent_id \in DOMAIN pending_intents
           THEN Insert(quotes, quote.intent_id,
                    <<quote>> \o (IF quote.intent_id \in DOMAIN quotes
                                  THEN quotes[quote.intent_id] ELSE <<>>))
           ELSE quotes
    /\ UNCHANGED <<pending_intents, intent_status, current_round,
                   round_results, panicked, clears, resubmitted, submitted>>

\* apply(AuctionCommand::SubmitQuote(quote))
SubmitQuote(quote) ==
    /\ Running
    /\ Buffered(quotes) < MaxQuotes
    /\ IF quote.intent_id \in DOMAIN pending_intents
       THEN quotes' = Insert(quotes, quote.intent_id,
                Append(IF quote.intent_id \in DOMAIN quotes
                       THEN quotes[quote.intent_id] ELSE <<>>, quote))
       ELSE quotes' = quotes
    /\ UNCHANGED <<pending_intents, intent_status, current_round,
                   round_results, panicked, clears, resubmitted, submitted>>

\* ClearRound that marks the settled intents Settled and leaves them in
\* pending_intents.
Commit_KeepPending(outcome) ==
    /\ pending_intents' = pending_intents
    /\ intent_status' =
           [k \in DOMAIN intent_status \cup Range(outcome.settled_intents) |->
               IF k \in Range(outcome.settled_intents) THEN "Settled"
               ELSE intent_status[k]]
    /\ round_results' =
           IF outcome.settled_intents # <<>>
           THEN Append(round_results,
                    [round |-> current_round,
                     settled_intents |-> outcome.settled_intents,
                     winning_quotes |-> outcome.winning_quotes,
                     aggregate_flow |-> outcome.aggregate_flow])
           ELSE round_results
    /\ quotes' = [i \in {} |-> 0]
    /\ current_round' = current_round + 1

\* ClearRound that advances the round only when it records a Settlement.
Commit_RoundOnSettle(outcome) ==
    /\ pending_intents' = RemoveAll(pending_intents, Range(outcome.settled_intents))
    /\ intent_status' =
           [k \in DOMAIN intent_status \cup Range(outcome.settled_intents) |->
               IF k \in Range(outcome.settled_intents) THEN "Settled"
               ELSE intent_status[k]]
    /\ round_results' =
           IF outcome.settled_intents # <<>>
           THEN Append(round_results,
                    [round |-> current_round,
                     settled_intents |-> outcome.settled_intents,
                     winning_quotes |-> outcome.winning_quotes,
                     aggregate_flow |-> outcome.aggregate_flow])
           ELSE round_results
    /\ quotes' = [i \in {} |-> 0]
    /\ current_round' =
           IF outcome.settled_intents # <<>>
           THEN current_round + 1 ELSE current_round

\* ClearRound that drops the buffered quotes of the settled intents only.
Commit_KeepLosers(outcome) ==
    /\ pending_intents' = RemoveAll(pending_intents, Range(outcome.settled_intents))
    /\ intent_status' =
           [k \in DOMAIN intent_status \cup Range(outcome.settled_intents) |->
               IF k \in Range(outcome.settled_intents) THEN "Settled"
               ELSE intent_status[k]]
    /\ round_results' =
           IF outcome.settled_intents # <<>>
           THEN Append(round_results,
                    [round |-> current_round,
                     settled_intents |-> outcome.settled_intents,
                     winning_quotes |-> outcome.winning_quotes,
                     aggregate_flow |-> outcome.aggregate_flow])
           ELSE round_results
    /\ quotes' = RemoveAll(quotes, Range(outcome.settled_intents))
    /\ current_round' = current_round + 1

\* ClearRound that keeps only the latest Settlement.
Commit_OnlyLatest(outcome) ==
    /\ pending_intents' = RemoveAll(pending_intents, Range(outcome.settled_intents))
    /\ intent_status' =
           [k \in DOMAIN intent_status \cup Range(outcome.settled_intents) |->
               IF k \in Range(outcome.settled_intents) THEN "Settled"
               ELSE intent_status[k]]
    /\ round_results' =
           IF outcome.settled_intents # <<>>
           THEN <<[round |-> current_round,
                   settled_intents |-> outcome.settled_intents,
                   winning_quotes |-> outcome.winning_quotes,
                   aggregate_flow |-> outcome.aggregate_flow]>>
           ELSE round_results
    /\ quotes' = [i \in {} |-> 0]
    /\ current_round' = current_round + 1

\* ClearRound that records a Settlement for every round.
Commit_AlwaysRecord(outcome) ==
    /\ pending_intents' = RemoveAll(pending_intents, Range(outcome.settled_intents))
    /\ intent_status' =
           [k \in DOMAIN intent_status \cup Range(outcome.settled_intents) |->
               IF k \in Range(outcome.settled_intents) THEN "Settled"
               ELSE intent_status[k]]
    /\ round_results' =
           Append(round_results,
               [round |-> current_round,
                settled_intents |-> outcome.settled_intents,
                winning_quotes |-> outcome.winning_quotes,
                aggregate_flow |-> outcome.aggregate_flow])
    /\ quotes' = [i \in {} |-> 0]
    /\ current_round' = current_round + 1

\* ClearRound that stamps the Settlement with the incremented counter.
Commit_StampNextRound(outcome) ==
    /\ pending_intents' = RemoveAll(pending_intents, Range(outcome.settled_intents))
    /\ intent_status' =
           [k \in DOMAIN intent_status \cup Range(outcome.settled_intents) |->
               IF k \in Range(outcome.settled_intents) THEN "Settled"
               ELSE intent_status[k]]
    /\ round_results' =
           IF outcome.settled_intents # <<>>
           THEN Append(round_results,
                    [round |-> current_round + 1,
                     settled_intents |-> outcome.settled_intents,
                     winning_quotes |-> outcome.winning_quotes,
                     aggregate_flow |-> outcome.aggregate_flow])
           ELSE round_results
    /\ quotes' = [i \in {} |-> 0]
    /\ current_round' = current_round + 1

\* The state changes of ClearRound once the loop has produced outcome.
Commit(outcome) ==
    /\ pending_intents' = RemoveAll(pending_intents, Range(outcome.settled_intents))
    /\ intent_status' =
           [k \in DOMAIN intent_status \cup Range(outcome.settled_intents) |->
               IF k \in Range(outcome.settled_intents) THEN "Settled"
               ELSE intent_status[k]]
    /\ round_results' =
           IF outcome.settled_intents # <<>>
           THEN Append(round_results,
                    [round |-> current_round,
                     settled_intents |-> outcome.settled_intents,
                     winning_quotes |-> outcome.winning_quotes,
                     aggregate_flow |-> outcome.aggregate_flow])
           ELSE round_results
    /\ quotes' = [i \in {} |-> 0]
    /\ current_round' = current_round + 1

\* apply(AuctionCommand::ClearRound).  An overflowing += panics in a build
\* with overflow checks (the loop has not changed self yet) and wraps in a
\* build without them.
ClearRound ==
    /\ Running
    /\ UNCHANGED <<resubmitted, submitted>>
    /\ LET outcome == RoundOutcome(pending_intents, quotes) IN
       \/ /\ outcome.overflow
          /\ panicked' = TRUE
          /\ UNCHANGED <<pending_intents, intent_status, current_round,
                         quotes, round_results, clears>>
       \/ /\ Commit(outcome)
          /\ panicked' = FALSE
          /\ clears' = clears + 1

\* reset that keeps intent_status.
Reset_KeepStatus ==
    /\ ~panicked
    /\ pending_intents' = [i \in {} |-> 0]
    /\ intent_status' = intent_status
    /\ current_round' = 0
    /\ quotes' = [i \in {} |-> 0]
    /\ round_results' = <<>>
    /\ clears' = 0
    /\ resubmitted' = {}
    /\ submitted' = {}
    /\ UNCHANGED panicked

\* StateMachine::reset.  The histories start again with the machine.
Reset ==
    /\ ~panicked
    /\ pending_intents' = [i \in {} |-> 0]
    /\ intent_status' = [i \in {} |-> 0]
    /\ current_round' = 0
    /\ quotes' = [i \in {} |-> 0]
    /\ round_results' = <<>>
    /\ clears' = 0
    /\ resubmitted' = {}
    /\ submitted' = {}
    /\ UNCHANGED panicked

(***************************************************************************)
(* Queries: functions of the state (query takes &self).  An Option is a    *)
(* sequence of length 0 or 1.                                              *)
(***************************************************************************)
\* query(AuctionQuery::PendingIntents): the values in key order.
QueryPendingIntents ==
    LET keys == SortedKeys(DOMAIN pending_intents)
    IN [i \in DOMAIN keys |-> pending_intents[keys[i]]]

\* query(AuctionQuery::RoundResult(round)): the first Settlement of the round.
QueryRoundResult(round) ==
    LET hits == {i \in DOMAIN round_results : round_results[i].round = round}
    IN IF hits = {} THEN <<>>
       ELSE <<round_results[CHOOSE i \in hits : \A j \in hits : i <= j]>>

\* query(AuctionQuery::CurrentRound)
QueryCurrentRound == current_round

\* IntentStatus that answers Pending for an id without a status.
QueryIntentStatus_DefaultPending(id) ==
    IF id \in DOMAIN intent_status THEN intent_status[id] ELSE "Pending"

\* query(AuctionQuery::IntentStatus(id))
QueryIntentStatus(id) ==
    IF id \in DOMAIN intent_status THEN intent_status[id]
    ELSE "NotFoundOrNotValid"

\* query(AuctionQuery::QuotesForIntent(id))
QueryQuotesForIntent(id) ==
    IF id \in DOMAIN quotes THEN quotes[id] ELSE <<>>

(***************************************************************************)
(* Inputs of the main specification: swaps of one unit of A for B.         *)
(***************************************************************************)
UserDiffs ==
    {("A" :> -1) @@ ("B" :> 1),
     ("A" :> -1) @@ ("B" :> 2)}

\* Two solvers answer; a quote_hash stands for the solver and its counter
\* diff: h1 gives one B for one A, h2 gives two B for one A.
SolverDiff(quote_hash) ==
    IF quote_hash = "h1" THEN ("A" :> 1) @@ ("B" :> -1)
    ELSE ("A" :> 1) @@ ("B" :> -2)

Intents == [id : IntentIds, token_diff : UserDiffs]

Quotes ==
    {[intent_id |-> id, quote_hash |-> h, amount_out |-> out,
      solver_token_diff |-> SolverDiff(h)] :
        id \in IntentIds, h \in QuoteHashes, out \in AmountsOut}

Next ==
    \/ \E intent \in Intents : SubmitIntent(intent)
    \/ \E quote \in Quotes : SubmitQuote(quote)
    \/ ClearRound

Spec == Init /\ [][Next]_vars

\* The machine under a host that also restores it with reset.
NextReset ==
    \/ \E intent \in Intents : SubmitIntent(intent)
    \/ \E quote \in Quotes : SubmitQuote(quote)
    \/ ClearRound
    \/ Reset

SpecReset == Init /\ [][NextReset]_vars

(***************************************************************************)
(* The compatibility rule on all pairs of token diffs: one intent and one  *)
(* quote for it are in the machine, with amounts that include the ends of  *)
(* the integer range, and the round is cleared.                            *)
(***************************************************************************)
CompatAmounts == {IntMin, -2, -1, 0, 1, 2, IntMax}

InitCompat ==
    \E user_diff \in DiffsOver(CompatAmounts),
       solver_diff \in DiffsOver(CompatAmounts) :
        /\ pending_intents = (1 :> [id |-> 1, token_diff |-> user_diff])
        /\ intent_status = (1 :> "Pending")
        /\ current_round = 0
        /\ quotes = (1 :> <<[intent_id |-> 1, quote_hash |-> "h1",
                             amount_out |-> 1,
                             solver_token_diff |-> solver_diff]>>)
        /\ round_results = <<>>
        /\ panicked = FALSE
        /\ clears = 0
        /\ resubmitted = {}
        /\ submitted = {1}

NextCompat == ClearRound

SpecCompat == InitCompat /\ [][NextCompat]_vars

(***************************************************************************)
(* Amounts at the ends of the integer range.                               *)
(***************************************************************************)
ExtremeUserDiffs == {EmptyDiff, ("A" :> IntMin)}

ExtremeSolverDiff(quote_hash) ==
    IF quote_hash = "h1" THEN ("A" :> IntMax) ELSE ("A" :> IntMin)

ExtremeIntents == [id : IntentIds, token_diff : ExtremeUserDiffs]

ExtremeQuotes ==
    {[intent_id |-> id, quote_hash |-> h, amount_out |-> out,
      solver_token_diff |-> ExtremeSolverDiff(h)] :
        id \in IntentIds, h \in QuoteHashes, out \in AmountsOut}

NextOverflow ==
    \/ \E intent \in ExtremeIntents : SubmitIntent(intent)
    \/ \E quote \in ExtremeQuotes : SubmitQuote(quote)
    \/ ClearRound

SpecOverflow == Init /\ [][NextOverflow]_vars

(***************************************************************************)
(* Vocabulary of the properties.                                           *)
(***************************************************************************)
\* The step is a ClearRound command that completed.
ClearApplied == clears' = clears + 1

\* The step appended a Settlement to the history.
Recorded == Len(round_results') = Len(round_results) + 1

\* The ids the Settlement appended by the step lists.
SettledNow ==
    IF Recorded
    THEN Range(round_results'[Len(round_results')].settled_intents)
    ELSE {}

\* The entry of winning_quotes at the index of id in settled_intents.
WinnerOf(settlement, id) ==
    settlement.winning_quotes[
        CHOOSE i \in DOMAIN settlement.settled_intents :
            settlement.settled_intents[i] = id]

\* The winning quote hash the step records for id.
WinnerNow(id) == WinnerOf(round_results'[Len(round_results')], id)

Compatible(id, q) ==
    token_diffs_compatible(pending_intents[id].token_diff, q.solver_token_diff)

\* The buffered quotes of a pending intent, and those compatible with it.
QuotesOf(id) == IF id \in DOMAIN quotes THEN quotes[id] ELSE <<>>
HasCompatibleQuote(id) == \E q \in Range(QuotesOf(id)) : Compatible(id, q)

\* The positions in qs of the quotes with the greatest amount_out.
Top(qs) ==
    {i \in DOMAIN qs : \A j \in DOMAIN qs : qs[i].amount_out >= qs[j].amount_out}

Least(S) == CHOOSE x \in S : \A y \in S : x <= y

\* The places (settlement, index) where id is listed in the history.
Listings(id) ==
    UNION {{<<r, i>> : i \in {j \in DOMAIN round_results[r].settled_intents :
                                 round_results[r].settled_intents[j] = id}} :
           r \in DOMAIN round_results}

(***************************************************************************)
(* Properties.                                                             *)
(***************************************************************************)
\* C1: when ClearRound evaluates a pending intent with two or more
\* compatible quotes of equal, maximal amount_out, the winner recorded in
\* the Settlement is the earliest submitted of the tied quotes.
C1_EarliestTiedQuoteWins ==
    [][ClearApplied =>
        \A id \in DOMAIN pending_intents :
            LET compatible == CompatibleQuotes(pending_intents[id], QuotesOf(id))
            IN Cardinality(Top(compatible)) >= 2 =>
                   /\ id \in SettledNow
                   /\ WinnerNow(id) = compatible[Least(Top(compatible))].quote_hash
      ]_vars

\* C2: for every intent a ClearRound settles, the recorded winner is a quote
\* that was buffered for that intent in the round being cleared, is
\* compatible with the intent's token_diff, and has an amount_out at least
\* that of every other compatible quote buffered for the intent.
C2_WinnerIsBestCompatible ==
    [][ClearApplied =>
        \A id \in SettledNow :
            /\ id \in DOMAIN pending_intents
            /\ \E q \in Range(QuotesOf(id)) :
                   /\ q.quote_hash = WinnerNow(id)
                   /\ q.intent_id = id
                   /\ Compatible(id, q)
                   /\ \A other \in Range(QuotesOf(id)) :
                          Compatible(id, other) => q.amount_out >= other.amount_out
      ]_vars

\* A pending intent has an incompatible quote with the highest amount_out
\* and a compatible one with less; clearing the round settles the intent.
C2_Witness ==
    /\ Running
    /\ \E id \in DOMAIN pending_intents :
           /\ \E q \in Range(QuotesOf(id)), other \in Range(QuotesOf(id)) :
                  /\ Compatible(id, q)
                  /\ ~Compatible(id, other)
                  /\ other.amount_out > q.amount_out
           /\ id \in Range(RoundOutcome(pending_intents, quotes).settled_intents)

\* C3: ClearRound settles a pending intent if and only if a compatible quote
\* is buffered for it: otherwise the intent stays pending with unchanged
\* content and status Pending and is not listed in the round's Settlement;
\* with a compatible quote it leaves the pending set, gets status Settled
\* and is listed in the Settlement the round records.
C3_SettlesIffCompatibleQuote ==
    [][ClearApplied =>
        \A id \in DOMAIN pending_intents :
            IF HasCompatibleQuote(id)
            THEN /\ id \notin DOMAIN pending_intents'
                 /\ intent_status'[id] = "Settled"
                 /\ Recorded
                 /\ id \in SettledNow
            ELSE /\ id \in DOMAIN pending_intents'
                 /\ pending_intents'[id] = pending_intents[id]
                 /\ intent_status'[id] = "Pending"
                 /\ id \notin SettledNow
      ]_vars

\* Two intents are pending, one with only incompatible quotes and one with
\* a compatible quote, and the round can be cleared.
C3_Witness ==
    /\ Running
    /\ \E id \in DOMAIN pending_intents, other \in DOMAIN pending_intents :
           /\ QuotesOf(id) # <<>>
           /\ ~HasCompatibleQuote(id)
           /\ HasCompatibleQuote(other)
           /\ RoundOutcome(pending_intents, quotes).settled_intents = <<other>>

\* C4: for every asset the intent sends (negative amount), the quote that
\* wins names that asset with a strictly positive amount: a quote that omits
\* an asset the intent sends, or names it with a zero or negative amount, is
\* never selected as winner.
C4_WinnerTakesEverySentAsset ==
    [][ClearApplied =>
        \A id \in SettledNow :
            \E q \in Range(QuotesOf(id)) :
                /\ q.quote_hash = WinnerNow(id)
                /\ \A asset \in DOMAIN pending_intents[id].token_diff :
                       pending_intents[id].token_diff[asset] < 0 =>
                           /\ asset \in DOMAIN q.solver_token_diff
                           /\ q.solver_token_diff[asset] > 0
      ]_vars

\* C5: a quote compatible with an intent contains every asset the intent
\* wants (positive amount) with a negative amount of at least that
\* magnitude, so a quote that omits a wanted asset or offers less is
\* incompatible; an intent with an empty token_diff is compatible with
\* every quote.
C5_WantedAssetsProvided ==
    \A id \in DOMAIN pending_intents :
        \A q \in Range(QuotesOf(id)) :
            LET user_diff == pending_intents[id].token_diff
                solver_diff == q.solver_token_diff
            IN /\ Compatible(id, q) =>
                      \A asset \in DOMAIN user_diff :
                          user_diff[asset] > 0 =>
                              /\ asset \in DOMAIN solver_diff
                              /\ solver_diff[asset] < 0
                              /\ -solver_diff[asset] >= user_diff[asset]
               /\ user_diff = EmptyDiff => Compatible(id, q)

\* A pending intent wants two units of B, a quote buffered for it gives
\* exactly two and is compatible, and clearing the round settles the intent.
C5_Witness ==
    /\ Running
    /\ \E id \in DOMAIN pending_intents :
           /\ \E q \in Range(QuotesOf(id)) :
                  /\ "B" \in DOMAIN pending_intents[id].token_diff
                  /\ pending_intents[id].token_diff["B"] = 2
                  /\ "B" \in DOMAIN q.solver_token_diff
                  /\ q.solver_token_diff["B"] = -2
                  /\ Compatible(id, q)
           /\ id \in Range(RoundOutcome(pending_intents, quotes).settled_intents)

\* C7 as stated: each intent id is listed in the settled_intents of at most
\* one Settlement of the history, and at most once in that list.
C7_SettledAtMostOnce ==
    \A id \in IntentIds : Cardinality(Listings(id)) <= 1

\* C7 as amended: an intent id that has not been submitted again after it
\* was settled is listed in at most one Settlement, and no Settlement lists
\* an id twice.
C7_SettledOncePerSubmission ==
    /\ \A id \in IntentIds \ resubmitted : Cardinality(Listings(id)) <= 1
    /\ \A r \in DOMAIN round_results : \A id \in IntentIds :
           Cardinality({i \in DOMAIN round_results[r].settled_intents :
                           round_results[r].settled_intents[i] = id}) <= 1

\* Two rounds have recorded a Settlement and an id that was never submitted
\* again after settling is listed in one of them.
C7_Witness ==
    /\ Len(round_results) = 2
    /\ \E id \in IntentIds \ resubmitted : Cardinality(Listings(id)) = 1

\* C8: in every Settlement of the history the aggregate_flow amount of
\* every asset is zero.
C8_ZeroSumSettlement ==
    \A r \in DOMAIN round_results :
        \A asset \in DOMAIN round_results[r].aggregate_flow :
            round_results[r].aggregate_flow[asset] = 0

\* C9: apply never fails: no ClearRound aborts, and none overflows in the
\* per-pair sum or in the accumulation of the round's aggregate_flow.
C9_ClearRoundNeverOverflows ==
    [][/\ ~panicked'
       /\ ClearApplied => ~RoundOutcome(pending_intents, quotes).overflow
      ]_vars

\* C10: the round counter starts at 0 and equals the number of ClearRound
\* commands applied, whether or not they settled an intent; no other
\* command changes it and it never decreases.
C10_RoundCounter == current_round = clears

\* A round was cleared that settled nothing, and the counter advanced.
C10_Witness ==
    /\ current_round = 1
    /\ clears = 1
    /\ round_results = <<>>
    /\ pending_intents # [i \in {} |-> 0]

\* The fields of AuctionStateMachine.
machine == <<pending_intents, intent_status, current_round, quotes,
             round_results>>

\* C11: immediately after any ClearRound the quote buffer is empty and
\* QuotesForIntent(id) returns the empty list for every id, whatever was
\* matched, including quotes that lost or were incompatible.
C11_BufferEmptyAfterClearRound ==
    [][ClearApplied =>
        /\ quotes' = [i \in {} |-> 0]
        /\ \A id \in IntentIds : QueryQuotesForIntent(id)' = <<>>
      ]_vars

\* One intent holds a quote that is incompatible with it, another holds a
\* compatible one, and the round can be cleared.
C11_Witness ==
    /\ Running
    /\ \E id \in DOMAIN pending_intents, other \in DOMAIN pending_intents :
           /\ Len(QuotesOf(id)) = 1
           /\ ~HasCompatibleQuote(id)
           /\ Len(QuotesOf(other)) = 1
           /\ HasCompatibleQuote(other)

\* C12: a SubmitQuote whose intent_id is not in the pending set changes
\* nothing: pending intents, statuses, quote buffers, round counter and
\* history stay as they are.
C12_QuoteForUnknownIdIsNoOp ==
    \A quote \in Quotes :
        quote.intent_id \notin DOMAIN pending_intents =>
            ~ENABLED (SubmitQuote(quote) /\ machine' # machine)

\* Intent 1 has been settled, intent 2 was never submitted, and a quote
\* can be submitted.
C12_Witness ==
    /\ Running
    /\ Buffered(quotes) < MaxQuotes
    /\ QueryIntentStatus(1) = "Settled"
    /\ 1 \notin DOMAIN pending_intents
    /\ 2 \notin submitted

\* C13: the history only grows by appending: no command modifies, reorders
\* or removes a recorded Settlement, so the result of RoundResult(N) for a
\* recorded round N never changes.
C13_HistoryAppendOnly ==
    [][/\ Len(round_results') >= Len(round_results)
       /\ SubSeq(round_results', 1, Len(round_results)) = round_results
       /\ \A N \in 0 .. MaxRound :
              QueryRoundResult(N) # <<>> =>
                  QueryRoundResult(N)' = QueryRoundResult(N)
      ]_vars

\* Rounds 0 and 1 both recorded a Settlement, the second after the first.
C13_Witness ==
    /\ Len(round_results) = 2
    /\ QueryRoundResult(0) = <<round_results[1]>>
    /\ QueryRoundResult(1) = <<round_results[2]>>

\* C14: a ClearRound that settles no intent appends nothing to the history:
\* every Settlement lists at least one intent, and RoundResult(r) is absent
\* for every round that settled nothing and for every round not yet cleared.
C14_EmptyRoundsLeaveNoRecord ==
    /\ [](/\ \A r \in DOMAIN round_results :
                 round_results[r].settled_intents # <<>>
          /\ \A r \in 0 .. MaxRound :
                 r >= current_round => QueryRoundResult(r) = <<>>)
    /\ [][/\ ClearApplied
             /\ RoundOutcome(pending_intents, quotes).settled_intents = <<>>
             => /\ round_results' = round_results
                /\ \A r \in 0 .. MaxRound :
                       r = current_round => QueryRoundResult(r)' = <<>>
          /\ \A r \in 0 .. MaxRound :
                 r < current_round /\ QueryRoundResult(r) = <<>>
                     => QueryRoundResult(r)' = <<>>
         ]_vars

\* Round 0 settled nothing and round 1 recorded a Settlement.
C14_Witness ==
    /\ current_round = 2
    /\ Len(round_results) = 1
    /\ QueryRoundResult(0) = <<>>
    /\ QueryRoundResult(1) # <<>>

\* C15: every id that is a key of pending_intents has an entry in
\* intent_status equal to Pending.
C15_PendingHasStatusPending ==
    \A id \in DOMAIN pending_intents :
        /\ id \in DOMAIN intent_status
        /\ intent_status[id] = "Pending"

\* An intent was settled, submitted again and is pending.
C15_Witness ==
    \E id \in resubmitted :
        /\ id \in DOMAIN pending_intents
        /\ QueryIntentStatus(id) = "Pending"

\* The buffered quote whose hash the step records as the winner of id.
WinningQuoteNow(id) ==
    CHOOSE q \in Range(QuotesOf(id)) : q.quote_hash = WinnerNow(id)

\* The sum over ids, in unbounded integers, of the intent's amount of asset
\* plus its winning quote's amount of asset.
RECURSIVE ExactFlow(_, _)
ExactFlow(ids, asset) ==
    IF ids = {} THEN 0
    ELSE LET id == Least(ids)
         IN AmountOf(pending_intents[id].token_diff, asset)
            + AmountOf(WinningQuoteNow(id).solver_token_diff, asset)
            + ExactFlow(ids \ {id}, asset)

\* C16: the aggregate_flow of the Settlement produced by a ClearRound
\* equals, for each asset, the sum over the intents settled in that round
\* of the intent's amount plus its winning quote's amount for that asset
\* (absent key counted as zero); nothing else contributes.
C16_AggregateFlowIsSum ==
    [][ClearApplied /\ Recorded =>
        \A asset \in Assets :
            AmountOf(round_results'[Len(round_results')].aggregate_flow, asset)
                = ExactFlow(SettledNow, asset)
      ]_vars

\* C17: in every Settlement in the history settled_intents and
\* winning_quotes have the same length, settled_intents is in strictly
\* ascending id order, and winning_quotes[i] is the quote_hash of the quote
\* ClearRound selected for settled_intents[i].
C17_SettlementShape ==
    /\ [](\A r \in DOMAIN round_results :
              LET settlement == round_results[r]
              IN /\ Len(settlement.settled_intents)
                        = Len(settlement.winning_quotes)
                 /\ \A i, j \in DOMAIN settlement.settled_intents :
                        i < j => settlement.settled_intents[i]
                                     < settlement.settled_intents[j])
    /\ [][ClearApplied /\ Recorded =>
            LET settlement == round_results'[Len(round_results')]
            IN \A i \in DOMAIN settlement.settled_intents :
                   LET id == settlement.settled_intents[i]
                       best == BestQuote(pending_intents[id], QuotesOf(id))
                   IN /\ best # <<>>
                      /\ i \in DOMAIN settlement.winning_quotes
                      /\ settlement.winning_quotes[i] = best[1].quote_hash
         ]_vars

\* Both intents are pending, each with one compatible quote, and the two
\* quotes carry different hashes.
C17_Witness ==
    /\ Running
    /\ DOMAIN pending_intents = {1, 2}
    /\ Len(QuotesOf(1)) = 1
    /\ Len(QuotesOf(2)) = 1
    /\ Compatible(1, QuotesOf(1)[1])
    /\ Compatible(2, QuotesOf(2)[1])
    /\ QuotesOf(1)[1].quote_hash # QuotesOf(2)[1].quote_hash

\* C18: after reset the state is that of a freshly constructed machine
\* (round 0, no pending intents, no statuses, empty quote buffer, empty
\* history), from whatever state reset is called; every command sequence
\* therefore continues as on a fresh instance, and a second reset changes
\* nothing.
C18_ResetRestoresInit ==
    [][Reset => /\ Init'
                /\ machine' = << [i \in {} |-> 0], [i \in {} |-> 0], 0,
                                 [i \in {} |-> 0], <<>> >>
      ]_vars

\* reset can be called on a machine that has a recorded round, a settled
\* and a pending intent and a buffered quote.
C18_Witness ==
    /\ ~panicked
    /\ current_round > 0
    /\ round_results # <<>>
    /\ DOMAIN pending_intents # {}
    /\ DOMAIN quotes # {}
    /\ \E id \in DOMAIN intent_status : intent_status[id] = "Settled"

\* C19: in every reachable state IntentStatus(id) is NotFoundOrNotValid
\* exactly for the ids never submitted since construction or the last
\* reset, Pending exactly for the ids in the pending set and Settled
\* otherwise, never TxBroadcasted; RoundResult(r) is absent when no
\* Settlement with round r exists; QuotesForIntent(id) is empty when nothing
\* is buffered for id.
C19_QueriesTotal ==
    /\ \A id \in IntentIds :
           /\ QueryIntentStatus(id) = "NotFoundOrNotValid" <=> id \notin submitted
           /\ QueryIntentStatus(id) = "Pending" <=> id \in DOMAIN pending_intents
           /\ (id \in submitted /\ id \notin DOMAIN pending_intents)
                  => QueryIntentStatus(id) = "Settled"
           /\ QueryIntentStatus(id) # "TxBroadcasted"
           /\ id \notin DOMAIN quotes => QueryQuotesForIntent(id) = <<>>
    /\ \A r \in 0 .. MaxRound :
           (\A i \in DOMAIN round_results : round_results[i].round # r)
               => QueryRoundResult(r) = <<>>
    /\ QueryCurrentRound = current_round
    /\ Len(QueryPendingIntents) = Cardinality(DOMAIN pending_intents)

\* Intent 1 is settled in round 0, intent 2 is pending with a buffered
\* quote, and round 1 is not cleared yet.
C19_Witness ==
    /\ QueryIntentStatus(1) = "Settled"
    /\ QueryIntentStatus(2) = "Pending"
    /\ QueryRoundResult(0) # <<>>
    /\ QueryRoundResult(1) = <<>>
    /\ QueryQuotesForIntent(1) = <<>>
    /\ QueryQuotesForIntent(2) # <<>>

\* C20: SubmitIntent(intent) cannot fail and changes only the pending entry
\* and the status of intent.id (entry replaced by the new intent, status
\* Pending): round counter, history, quote buffers (those of intent.id
\* included) and the entries and statuses of all other ids are unchanged.
C20_SubmitIntentFrame ==
    [][\A intent \in Intents :
           SubmitIntent(intent) =>
               /\ panicked' = panicked
               /\ UNCHANGED <<current_round, round_results, quotes>>
               /\ pending_intents'[intent.id] = intent
               /\ intent_status'[intent.id] = "Pending"
               /\ DOMAIN pending_intents'
                      = DOMAIN pending_intents \cup {intent.id}
               /\ DOMAIN intent_status'
                      = DOMAIN intent_status \cup {intent.id}
               /\ \A id \in DOMAIN pending_intents \ {intent.id} :
                      pending_intents'[id] = pending_intents[id]
               /\ \A id \in DOMAIN intent_status \ {intent.id} :
                      intent_status'[id] = intent_status[id]
      ]_vars

\* Intent 1 is pending with a buffered quote and can be submitted again
\* while intent 2 is settled.
C20_Witness ==
    /\ Running
    /\ 1 \in DOMAIN pending_intents
    /\ QuotesOf(1) # <<>>
    /\ QueryIntentStatus(2) = "Settled"

\* C21: every key of the quote buffer is the id of a pending intent, every
\* buffered list is non-empty, every quote buffered under key k has
\* intent_id = k, and each list holds the quotes accepted for k since the
\* last ClearRound in submission order: a list changes only by a ClearRound,
\* which empties it, or by an accepted quote for k, which goes to its end.
C21_QuoteBufferWellFormed ==
    /\ [](\A k \in DOMAIN quotes :
              /\ k \in DOMAIN pending_intents
              /\ quotes[k] # <<>>
              /\ \A i \in DOMAIN quotes[k] : quotes[k][i].intent_id = k)
    /\ [][\A k \in IntentIds :
              IF ClearApplied
              THEN QueryQuotesForIntent(k)' = <<>>
              ELSE \/ QueryQuotesForIntent(k)' = QueryQuotesForIntent(k)
                   \/ \E quote \in Quotes :
                          /\ quote.intent_id = k
                          /\ k \in DOMAIN pending_intents
                          /\ SubmitQuote(quote)
                          /\ QueryQuotesForIntent(k)'
                                 = Append(QueryQuotesForIntent(k), quote)
         ]_vars

\* Two different quotes are buffered for one pending intent.
C21_Witness ==
    \E k \in DOMAIN quotes :
        /\ k \in DOMAIN pending_intents
        /\ Len(quotes[k]) = 2
        /\ quotes[k][1] # quotes[k][2]

\* C22: the round fields of the Settlements in the history are strictly
\* increasing in list order and each is strictly less than the current
\* round counter, so at most one Settlement exists per round number and
\* RoundResult(r) is unambiguous.
C22_RoundsStrictlyIncreasing ==
    /\ \A i, j \in DOMAIN round_results :
           i < j => round_results[i].round < round_results[j].round
    /\ \A i \in DOMAIN round_results :
           round_results[i].round < current_round
    /\ \A r \in 0 .. MaxRound :
           /\ Cardinality({i \in DOMAIN round_results :
                               round_results[i].round = r}) <= 1
           /\ \A i \in DOMAIN round_results :
                  round_results[i].round = r
                      => QueryRoundResult(r) = <<round_results[i]>>

\* Two consecutive rounds each recorded a Settlement.
C22_Witness ==
    /\ current_round = 2
    /\ Len(round_results) = 2
    /\ round_results[1].round = 0
    /\ round_results[2].round = 1

====
